---- MODULE Spec2Model ----
(***************************************************************************)
(* The Ag Grid wrapper component, ui/src/custom_components/                *)
(* AgGridCommunity.vue: a Vue component whose setup registers a watcher on *)
(* fields.spec.value and a mounted hook, both of which call the async      *)
(* function renderGrid.  renderGrid tests its guards, suspends once on the *)
(* dynamic import of ag-grid-community, and on resumption either           *)
(* constructs the Grid or calls setRowData on the one it has.              *)
(*                                                                         *)
(* JavaScript is single-threaded: each callback, and each stretch of       *)
(* renderGrid between two suspension points, is one atomic action.  The    *)
(* render calls suspended on the import hold no local state (everything    *)
(* they use after the await is re-read from fields, rootEl and aggrid), so *)
(* they are modelled by their number.                                      *)
(*                                                                         *)
(* The third-party Grid is outside the repository.  Its constructor and    *)
(* setRowData either return or throw, nondeterministically; a Grid         *)
(* constructed with gridOptions undefined has no gridOptions.              *)
(***************************************************************************)
EXTENDS Naturals, FiniteSets, Sequences, TLC

\* Bounds of the model.
MaxChanges == 3     \* changes of the evaluated specification value
NColumnDefs == 2    \* distinct columnDefs a specification value may carry
NRowData == 2       \* distinct rowData a specification value may carry

VARIABLES
    ssr,          \* import.meta.env.SSR
    spec,         \* fields.spec.value
    rootEl,       \* rootEl.value
    aggrid,       \* let aggrid
    pending,      \* renderGrid calls suspended on await import(...)
    \* History of the run (not program state):
    changes,          \* changes of fields.spec.value so far
    mountedAt,        \* the number of changes that preceded the mount
    absentAfterMount, \* some change after mount set the value to undefined
    renderCalls,      \* calls of renderGrid
    overlapped,       \* two render calls have been suspended at once
    ctorCalls,        \* invocations of new Grid
    ctorArgs,         \* the gridOptions arguments new Grid was invoked with
    created,          \* Grid instances constructed (the constructor returned)
    ctorThrew,        \* invocations of new Grid that threw
    rowCalls,         \* invocations of setRowData
    rowThrew          \* invocations of setRowData that threw

widgetVars == <<aggrid, ctorCalls, ctorArgs, created, ctorThrew, rowCalls, rowThrew>>
vars == <<ssr, spec, rootEl, aggrid, pending, changes, mountedAt, absentAfterMount,
          renderCalls, overlapped, ctorCalls, ctorArgs, created, ctorThrew,
          rowCalls, rowThrew>>

\* ---------------------------------------------------------------- values

\* undefined: the falsy value of fields.spec.value.
Absent == [kind |-> "undefined"]

\* A grid specification object: its columnDefs and its rowData.
SpecObjects == [kind : {"object"}, columnDefs : 1..NColumnDefs, rowData : 1..NRowData]

FieldValues == SpecObjects \cup {Absent}

\* rootEl.value: null until the template ref is bound at mount.
NoEl == "null"
Div == "div"

\* let aggrid: any = null
Null == [kind |-> "null"]

\* !x of JavaScript on the values above.
Falsy(v) == v = Absent

\* The Grid object new Grid(el, opts) returns: it keeps the element and the
\* options object it was given and displays the options' rowData.
GridInstance(id, el, opts) ==
    [kind |-> "Grid", id |-> id, eGridDiv |-> el, gridOptions |-> opts,
     rowData |-> IF Falsy(opts) THEN 0 ELSE opts.rowData]

\* ------------------------------------------------------------ renderGrid

\* if (import.meta.env.SSR) return; if (!fields.spec.value || !rootEl.value) return;
RenderSkippedNoRootCheck(s, el) == ssr \/ Falsy(s)
RenderSkipped(s, el) == ssr \/ Falsy(s) \/ el = NoEl

\* A call of renderGrid up to its await: s and el are fields.spec.value and
\* rootEl.value as the guards read them.  Nothing of the widget is touched
\* before the suspension.
RenderGridNoAwait(s, el) ==
    /\ renderCalls' = renderCalls + 1
    /\ UNCHANGED <<pending, overlapped>>
    /\ IF RenderSkipped(s, el) \/ aggrid # Null
         THEN UNCHANGED widgetVars
         ELSE /\ aggrid' = GridInstance(created + 1, el, s)
              /\ created' = created + 1
              /\ ctorCalls' = ctorCalls + 1
              /\ ctorArgs' = ctorArgs \cup {s}
              /\ UNCHANGED <<ctorThrew, rowCalls, rowThrew>>
RenderGrid(s, el) ==
    /\ renderCalls' = renderCalls + 1
    /\ pending' = IF RenderSkipped(s, el) THEN pending ELSE pending + 1
    /\ overlapped' = (overlapped \/ pending' >= 2)
    /\ UNCHANGED widgetVars

\* aggrid = new Grid(...) when the constructor throws: the assignment does
\* not happen.
CtorThrowsKeepsHandle(el, opts) ==
    /\ ctorThrew' = ctorThrew + 1
    /\ created' = created + 1
    /\ aggrid' = GridInstance(created + 1, el, Absent)
CtorThrows(el, opts) ==
    /\ ctorThrew' = ctorThrew + 1
    /\ UNCHANGED <<aggrid, created>>

\* aggrid = new Grid(rootEl.value, fields.spec.value);
NewGrid(el, opts) ==
    /\ ctorCalls' = ctorCalls + 1
    /\ ctorArgs' = ctorArgs \cup {opts}
    /\ UNCHANGED <<rowCalls, rowThrew>>
    /\ \/ /\ aggrid' = GridInstance(created + 1, el, opts)
          /\ created' = created + 1
          /\ UNCHANGED ctorThrew
       \/ CtorThrows(el, opts)

\* The grid after api.setRowData(s.rowData) returned.
RefreshedStale(g, s) == [g EXCEPT !.rowData = g.gridOptions.rowData]
RefreshedAll(g, s) == [g EXCEPT !.rowData = s.rowData, !.gridOptions = s]
Refreshed(g, s) == [g EXCEPT !.rowData = s.rowData]

\* aggrid.gridOptions.api.setRowData(fields.spec.value.rowData);
\* Reading .api of an undefined gridOptions, or .rowData of an undefined
\* specification value, is a TypeError: setRowData is not called.
SetRowData(g, s) ==
    /\ UNCHANGED <<ctorCalls, ctorArgs, created, ctorThrew>>
    /\ IF Falsy(g.gridOptions) \/ Falsy(s)
         THEN UNCHANGED <<aggrid, rowCalls, rowThrew>>
         ELSE /\ rowCalls' = rowCalls + 1
              /\ \/ /\ aggrid' = Refreshed(g, s)
                    /\ UNCHANGED rowThrew
                 \/ /\ rowThrew' = rowThrew + 1
                    /\ UNCHANGED aggrid

\* if (aggrid === null)
NeedsInstance(a) == a = Null

\* The import resolves: one suspended renderGrid call runs to its end.
ResumeRender ==
    /\ pending > 0
    /\ pending' = pending - 1
    /\ IF NeedsInstance(aggrid)
         THEN NewGrid(rootEl, spec)
         ELSE SetRowData(aggrid, spec)
    /\ UNCHANGED <<ssr, spec, rootEl, changes, mountedAt, absentAfterMount,
                   renderCalls, overlapped>>

\* ----------------------------------------------------- watch / onMounted

\* watch(() => fields.spec.value, (spec) => { if (!spec) return; renderGrid(); })
WatchNoGuard(v) == RenderGrid(v, rootEl)
Watch(v) ==
    IF Falsy(v)
      THEN UNCHANGED <<renderCalls, pending, overlapped, aggrid, ctorCalls,
                       ctorArgs, created, ctorThrew, rowCalls, rowThrew>>
      ELSE RenderGrid(v, rootEl)

\* The evaluated specification value changes and the watcher runs.
SpecChange ==
    \E v \in FieldValues :
        /\ v # spec
        /\ changes < MaxChanges
        /\ spec' = v
        /\ changes' = changes + 1
        /\ absentAfterMount' = (absentAfterMount \/ (rootEl # NoEl /\ Falsy(v)))
        /\ Watch(v)
        /\ UNCHANGED <<ssr, rootEl, mountedAt>>

\* onMounted(() => { renderGrid(); ... }): the template ref is bound first.
\* Mounted hooks do not run in a server-side render.
MountNoRender ==
    /\ ~ssr
    /\ rootEl = NoEl
    /\ rootEl' = Div
    /\ mountedAt' = changes
    /\ UNCHANGED <<ssr, spec, changes, absentAfterMount, renderCalls, pending,
                   overlapped, aggrid, ctorCalls, ctorArgs, created, ctorThrew,
                   rowCalls, rowThrew>>
Mount ==
    /\ ~ssr
    /\ rootEl = NoEl
    /\ rootEl' = Div
    /\ mountedAt' = changes
    /\ RenderGrid(spec, Div)
    /\ UNCHANGED <<ssr, spec, changes, absentAfterMount>>

\* --------------------------------------------------------- specification

Init ==
    /\ ssr \in BOOLEAN
    /\ spec \in FieldValues
    /\ rootEl = NoEl
    /\ aggrid = Null
    /\ pending = 0
    /\ changes = 0
    /\ mountedAt = 0
    /\ absentAfterMount = FALSE
    /\ renderCalls = 0
    /\ overlapped = FALSE
    /\ ctorCalls = 0
    /\ ctorArgs = {}
    /\ created = 0
    /\ ctorThrew = 0
    /\ rowCalls = 0
    /\ rowThrew = 0

Next == SpecChange \/ Mount \/ ResumeRender

Spec == Init /\ [][Next]_vars

\* Every module load eventually completes.
FairSpec == Spec /\ WF_vars(ResumeRender)

TypeOK ==
    /\ ssr \in BOOLEAN
    /\ spec \in FieldValues
    /\ rootEl \in {NoEl, Div}
    /\ pending \in 0..(MaxChanges + 1)
    /\ aggrid = Null \/ aggrid.kind = "Grid"
    /\ ctorArgs \subseteq FieldValues

\* ----------------------------------------------------------------- claims

\* C1: the Ag Grid widget is never instantiated (new Grid) with the
\* evaluated specification value undefined: no invocation of the constructor
\* was given an absent fields.spec.value.
NeverInstantiatedWithoutSpec == \A a \in ctorArgs : ~Falsy(a)

\* The first two parts of C2 on their own: at most one Grid instance is ever
\* constructed, and a non-null aggrid refers to the same instance forever.
AtMostOneInstance == [][created' <= 1]_vars
SameInstanceForever ==
    [][aggrid # Null => aggrid' # Null /\ aggrid'.id = aggrid.id]_vars

\* C2: at most one Grid instance is ever constructed, once aggrid is non-null
\* it refers to that same instance forever, and every render call that
\* resumes with aggrid non-null calls setRowData on it.
OneInstanceAlwaysRefreshed ==
    [][ /\ created' <= 1
        /\ (aggrid # Null => aggrid' # Null /\ aggrid'.id = aggrid.id)
        /\ (pending' < pending /\ aggrid # Null => rowCalls' = rowCalls + 1) ]_vars

\* C3: last write wins.  When the component is mounted, every write since
\* the mount was a present value, no widget call threw and no render call is
\* pending, the widget exists and displays the rowData of the current (last
\* written) specification value.
LastWriteWins ==
    (/\ rootEl # NoEl
     /\ pending = 0
     /\ ~Falsy(spec)
     /\ ~absentAfterMount
     /\ ctorThrew = 0
     /\ rowThrew = 0)
    => (aggrid # Null /\ aggrid.rowData = spec.rowData)

LastWriteWinsWitness ==
    /\ rootEl # NoEl
    /\ pending = 0
    /\ ~Falsy(spec)
    /\ ~absentAfterMount
    /\ ctorThrew = 0
    /\ rowThrew = 0
    /\ overlapped
    /\ changes - mountedAt >= 2
    /\ rowCalls >= 2
    /\ aggrid # Null
    /\ aggrid.rowData # aggrid.gridOptions.rowData

\* C4: a change of the evaluated specification value calls renderGrid once
\* when the new value is present and not at all when it is absent, so the
\* render calls never exceed one for the mount plus the number of changes.
RenderCallsPerChange ==
    [][ /\ (changes' # changes =>
               renderCalls' = renderCalls + (IF Falsy(spec') THEN 0 ELSE 1))
        /\ renderCalls' <= (IF rootEl' = NoEl THEN 0 ELSE 1) + changes' ]_vars

RenderCallsPerChangeWitness ==
    /\ rootEl # NoEl
    /\ changes >= 3
    /\ changes - mountedAt >= 2
    /\ Falsy(spec)
    /\ renderCalls = changes - 1

\* C5: a renderGrid call that starts in server-side rendering, or with the
\* specification value absent, or with rootEl absent, does not suspend on the
\* module load, makes no widget call and leaves aggrid and the displayed rows
\* as they were.
SkippedRenderDoesNothing ==
    [][ (renderCalls' # renderCalls /\ (ssr \/ Falsy(spec') \/ rootEl' = NoEl))
            => (pending' = pending /\ widgetVars' = widgetVars) ]_vars

SkippedRenderWitness ==
    /\ ~ssr
    /\ rootEl = NoEl
    /\ ~Falsy(spec)
    /\ renderCalls >= 1
    /\ pending = 0
    /\ ctorCalls = 0

\* C6: the module load is the only suspension point and it precedes every
\* use of the widget: a step that touches the widget is the resumption of
\* exactly one suspended render call and starts none, and that step tests
\* aggrid and instantiates or refreshes in one go, so aggrid is null exactly
\* while no instance has been constructed.
SuspensionOnlyAtImport ==
    [][ /\ (widgetVars' # widgetVars =>
               pending' = pending - 1 /\ renderCalls' = renderCalls)
        /\ (pending' < pending =>
               IF aggrid = Null
                 THEN /\ ctorCalls' = ctorCalls + 1
                      /\ rowCalls' = rowCalls
                      /\ (aggrid' # Null <=> created' = created + 1)
                 ELSE /\ ctorCalls' = ctorCalls
                      /\ created' = created
                      /\ aggrid'.id = aggrid.id)
        /\ (aggrid' = Null <=> created' = 0) ]_vars

SuspensionWitness ==
    /\ overlapped
    /\ pending = 0
    /\ created = 1
    /\ ctorCalls = 1
    /\ rowCalls >= 1

\* C7: a failure of the widget leaves no trace in the wrapper.  When the
\* Grid constructor throws, aggrid stays null and the wrapper's state is
\* otherwise as before, so a render call that resumes with aggrid null
\* invokes the constructor (again) and not setRowData; when setRowData
\* throws, aggrid keeps referring to the same instance.
WidgetFailureNotRecorded ==
    [][ /\ (ctorThrew' # ctorThrew =>
               /\ aggrid = Null
               /\ aggrid' = Null
               /\ created' = created
               /\ <<ssr, spec, rootEl>>' = <<ssr, spec, rootEl>>)
        /\ (pending' < pending /\ aggrid = Null =>
               ctorCalls' = ctorCalls + 1 /\ rowCalls' = rowCalls)
        /\ (rowThrew' # rowThrew => aggrid' = aggrid /\ aggrid # Null) ]_vars

WidgetFailureWitness ==
    /\ ctorThrew >= 1
    /\ ctorCalls >= 2
    /\ created = 1
    /\ aggrid # Null
    /\ rowThrew >= 1

\* C8: once the component is mounted (which happens only outside server-side
\* rendering) with the specification value present, the widget is eventually
\* instantiated, unless the Grid constructor throws, given that every module
\* load eventually completes.
EventuallyInstantiated ==
    (rootEl # NoEl /\ ~Falsy(spec)) ~> (aggrid # Null \/ ctorThrew > 0)

\* The watcher fired before the mount and was skipped; the render call of
\* onMounted instantiated the widget.
EventuallyInstantiatedWitness ==
    /\ rootEl # NoEl
    /\ mountedAt = 1
    /\ changes = 1
    /\ renderCalls = 2
    /\ ~Falsy(spec)
    /\ ctorThrew = 0
    /\ aggrid # Null

\* C9: the widget is constructed on rootEl with the specification value
\* current at that moment as its options, and from then on its options
\* (column definitions included) and its mount target never change: a
\* refresh changes its displayed rows only.
RefreshChangesOnlyRows ==
    [][ /\ (aggrid = Null /\ aggrid' # Null =>
               aggrid'.gridOptions = spec /\ aggrid'.eGridDiv = rootEl)
        /\ (aggrid # Null =>
               /\ aggrid' # Null
               /\ aggrid'.gridOptions = aggrid.gridOptions
               /\ aggrid'.eGridDiv = aggrid.eGridDiv) ]_vars

RefreshChangesOnlyRowsWitness ==
    /\ aggrid # Null
    /\ ~Falsy(aggrid.gridOptions)
    /\ ~Falsy(spec)
    /\ rowCalls >= 1
    /\ aggrid.rowData = spec.rowData
    /\ aggrid.rowData # aggrid.gridOptions.rowData
    /\ aggrid.gridOptions.columnDefs # spec.columnDefs

====
